---------------------------- MODULE Spec2Model ----------------------------
(***************************************************************************)
(* A model of tracker.py, the weight-tracker batch job: date_following,    *)
(* insert_date_entry, extract_sheet_data, get_progression, plot_trend and  *)
(* main.                                                                   *)
(*                                                                         *)
(* Dates are days of the (leap) year 2024, numbered 1..366; 1 January 2024 *)
(* is a Monday.  A date string "dd/mm/yy" is the tuple <<dd, mm, yy>>.  A  *)
(* worksheet cell that holds a weight is a sequence: <<>> is the empty     *)
(* cell '' (NaN once extracted), <<w>> holds the number w.                 *)
(***************************************************************************)
EXTENDS Integers, Sequences, FiniteSets

(***************************************************************************)
(* Bounds of the model.                                                    *)
(***************************************************************************)
MaxRuns == 3
MaxDays == 1
MaxLimit == 3
MaxRecords == 3
MaxPeriods == 3
MaxDelta == 2

(***************************************************************************)
(* The calendar: datetime arithmetic, strftime and the parsing of date     *)
(* strings.                                                                *)
(***************************************************************************)
DaysInMonth == <<31, 29, 31, 30, 31, 30, 31, 31, 30, 31, 30, 31>>

RECURSIVE DaysBefore(_)
DaysBefore(m) == IF m = 1 THEN 0 ELSE DaysBefore(m - 1) + DaysInMonth[m - 1]

\* The day of the year of day d of month m.
Ord(d, m) == DaysBefore(m) + d

MonthOf(o) == CHOOSE m \in 1..12 : DaysBefore(m) < o /\ o <= DaysBefore(m) + DaysInMonth[m]

DayOf(o) == o - DaysBefore(MonthOf(o))

\* strftime("%d/%m/%y") of a date of 2024.
Strftime(o) == <<DayOf(o), MonthOf(o), 24>>

\* What the string was written to mean: day first.
DayFirst(s) == Ord(s[1], s[2])

\* astype("datetime64[ns]") of a date string parses each string on its own,
\* month first; only when the first field cannot be a month is the string
\* read day first.
ParseDate(s) == IF s[1] > 12 THEN Ord(s[1], s[2]) ELSE Ord(s[2], s[1])

\* resample('W') groups by weeks that end on Sunday: Monday to Sunday.
WeekOf(o) == (o - 1) \div 7

Min(a, b) == IF a <= b THEN a ELSE b

Max(a, b) == IF a >= b THEN a ELSE b


(***************************************************************************)
(* The state.  header and sheet are the worksheet "weight_measurements_kg" *)
(* (row 1, and the rows from row 2 on); today is the clock; the rest is    *)
(* one run of main.  sheet0 and insertDays record the sheet before the     *)
(* first run and the day of every insert_row.  args and result are the     *)
(* arguments and the outcome of one call of a function checked on its own. *)
(***************************************************************************)
VARIABLES header, sheet, today, pc, trace, records, df, msg, sent,
          sheet0, insertDays, args, result

vars == <<header, sheet, today, pc, trace, records, df, msg, sent,
          sheet0, insertDays, args, result>>

runVars == <<pc, trace, records, df, msg, sent>>

EmptyCell == <<>>

Weights == {80, 83}

Cells == {EmptyCell} \cup {<<w>> : w \in Weights}

\* The day of the first run, and the dates the sheet may hold before it.
InitDay == Ord(15, 1)

InitDates == {Ord(12, 1), Ord(14, 1), Ord(15, 1)}

LastDay == InitDay + MaxDays

(***************************************************************************)
(* date_following.  date is [kind, ord]: kind "None" is the default, kind  *)
(* "datetime" a datetime, kind "date" a datetime.date, kinds "str" and     *)
(* "int" a string and an integer; now is datetime.today().  The outcome is *)
(* [raised, value, printed]: the string returned, or the exception that    *)
(* left the call, and whether line 41 printed the coercion's exception.    *)
(***************************************************************************)
NoneDate == [kind |-> "None", ord |-> 0]

\* datetime(date), line 39: the constructor takes year, month and day, so a
\* call with one argument raises TypeError whatever the argument is.
CoercionFails(date) == TRUE

\* date + timedelta(delta), line 46: defined for a datetime and a
\* datetime.date; a str or an int raises TypeError.
CanAddTimedelta(date) == date.kind \in {"datetime", "date"}

date_following(date, delta, now) ==
    LET printed == date.kind # "None" /\ date.kind # "datetime" /\ CoercionFails(date)
        d == IF date.kind = "None" THEN [kind |-> "datetime", ord |-> now] ELSE date
    IN  IF CanAddTimedelta(d)
        THEN [raised |-> "", value |-> Strftime(d.ord + delta), printed |-> printed]
        ELSE [raised |-> "TypeError", value |-> <<>>, printed |-> printed]

(***************************************************************************)
(* insert_date_entry: worksheet.insert_row(values, index) puts the row at  *)
(* row `index` of the worksheet and shifts the rows from there on down.    *)
(* rows holds the worksheet from row 2 on.                                 *)
(***************************************************************************)
InsertRow(rows, values, index) ==
    SubSeq(rows, 1, index - 2) \o <<values>> \o SubSeq(rows, index - 1, Len(rows))

\* An insert_date_entry that appends the row below the last one.
insert_date_entry_append(rows, now) ==
    Append(rows, [Date |-> date_following(NoneDate, 1, now).value, Weight |-> EmptyCell])

insert_date_entry(rows, now) ==
    InsertRow(rows, [Date |-> date_following(NoneDate, 1, now).value, Weight |-> EmptyCell], 2)

(***************************************************************************)
(* extract_sheet_data.                                                     *)
(***************************************************************************)
Limit == 30

NoData == [none |-> TRUE, rows |-> <<>>]

\* df.mask(df == ''), the two astype calls and set_index("Date").
Frame(recs) ==
    [i \in 1..Len(recs) |-> [Date |-> ParseDate(recs[i].Date), Weight |-> recs[i].Weight]]

\* sort_values(by="Date"): every ascending order of the rows (the default
\* sort is not stable, so rows of equal date come in any order).
RECURSIVE SortValues(_, _)
SortValues(f, I) ==
    IF I = {} THEN {<<>>}
    ELSE UNION {{<<f[i]>> \o t : t \in SortValues(f, I \ {i})} :
                i \in {j \in I : \A k \in I : f[j].Date <= f[k].Date}}

\* s[start:], a Python slice.
SliceFrom(s, start) ==
    LET from == IF start < 0 THEN Max(Len(s) + start, 0) ELSE Min(start, Len(s))
    IN  SubSeq(s, from + 1, Len(s))

\* The frames extract_sheet_data may return for these records and limit.
extract_sheet_data(recs, limit) ==
    IF recs = <<>> THEN {NoData}
    ELSE LET n_records_to_return == Min(Len(recs), limit)
         IN  {[none |-> FALSE, rows |-> SliceFrom(s, -n_records_to_return)] :
                s \in SortValues(Frame(recs), DOMAIN recs)}

(***************************************************************************)
(* The weekly change of main: df.resample('W').mean() and lines 206-210.   *)
(* A mean is [nan, num, den], the fraction num/den; a change is            *)
(* [kind, nan, value], value in hundredths.                                *)
(***************************************************************************)
NaN == [nan |-> TRUE, num |-> 0, den |-> 1]

RECURSIVE SumWeights(_, _)
SumWeights(rows, I) ==
    IF I = {} THEN 0
    ELSE LET i == CHOOSE j \in I : TRUE
         IN  rows[i].Weight[1] + SumWeights(rows, I \ {i})

FirstWeek(rows) == WeekOf(rows[1].Date)

LastWeek(rows) == WeekOf(rows[Len(rows)].Date)

\* weekly_averages.shape[0]: one bucket per week from the first date's to the
\* last date's, the weeks with no row included.
NBuckets(rows) == IF rows = <<>> THEN 0 ELSE LastWeek(rows) - FirstWeek(rows) + 1

\* The mean of a week skips the missing weights; it is NaN when none is left.
BucketMean(rows, w) ==
    LET I == {i \in DOMAIN rows : WeekOf(rows[i].Date) = w /\ rows[i].Weight # EmptyCell}
    IN  IF I = {} THEN NaN
        ELSE [nan |-> FALSE, num |-> SumWeights(rows, I), den |-> Cardinality(I)]

\* n/d rounded to the nearest integer, halves to the even one.
RoundHalfEven(n, d) ==
    LET q == n \div d
        r == n % d
    IN  IF 2 * r < d THEN q
        ELSE IF 2 * r > d THEN q + 1
        ELSE IF q % 2 = 0 THEN q ELSE q + 1

\* (a - b).round(2), in hundredths.
Round2Diff(a, b) == RoundHalfEven(100 * (a.num * b.den - b.num * a.den), a.den * b.den)

weekly_average_change(rows) ==
    LET last == BucketMean(rows, LastWeek(rows))
        prev == BucketMean(rows, LastWeek(rows) - 1)
    IN  IF last.nan \/ prev.nan THEN [kind |-> "change", nan |-> TRUE, value |-> 0]
        ELSE [kind |-> "change", nan |-> FALSE, value |-> Round2Diff(last, prev)]

Text(kind) == [kind |-> kind, nan |-> FALSE, value |-> 0]

change_msg(rows) ==
    IF NBuckets(rows) >= 2 THEN weekly_average_change(rows) ELSE Text("insufficient")

\* plot_trend reads df.iloc[0], which raises IndexError on a frame without rows.
plot_trend_ok(rows) == rows # <<>>

Progress == [maintype |-> "image", subtype |-> "png", filename |-> "Progress"]

BlankMessage == [subject |-> "", body |-> Text("none"), attachments |-> <<>>]

\* Lines 197-217 of main: [ok, msg].
compose(frame) ==
    IF frame.none
    THEN [ok |-> TRUE,
          msg |-> [subject |-> "Check out your progress!", body |-> Text("generic"),
                   attachments |-> <<>>]]
    ELSE IF plot_trend_ok(frame.rows)
    THEN [ok |-> TRUE,
          msg |-> [subject |-> "Check out your progress!", body |-> change_msg(frame.rows),
                   attachments |-> <<Progress>>]]
    ELSE [ok |-> FALSE, msg |-> BlankMessage]

(***************************************************************************)
(* main, one run after the other.  pc is the place of the run: "init"      *)
(* before line 195, then "extract", "compose", "send", "insert", and       *)
(* "done" after line 223 or "failed" once an exception has left main.      *)
(* trace lists the steps the run has completed.                            *)
(***************************************************************************)
RunOrder ==
    <<"fetch_worksheet", "get_all_records", "extract", "compose", "send_message", "insert_row">>

NoArgs == <<>>

InitRows == [Date : {Strftime(o) : o \in InitDates}, Weight : Cells]

\* The sheets the first run may find: rows of distinct dates, in any order.
InitSheets ==
    UNION {{s \in [1..n -> InitRows] : \A i, j \in 1..n : i # j => s[i].Date # s[j].Date} :
           n \in 0..Cardinality(InitDates)}

Init ==
    /\ header = <<"Date", "Weight">>
    /\ sheet \in InitSheets
    /\ sheet0 = sheet
    /\ today = InitDay
    /\ pc = "init"
    /\ trace = <<>>
    /\ records = <<>>
    /\ df = NoData
    /\ msg = BlankMessage
    /\ sent = <<>>
    /\ insertDays = <<>>
    /\ args = NoArgs
    /\ result = NoArgs

\* A main that swallows the exception of the mail transport and goes on.
OnSendFailureSwallowed == "insert"

\* Where main goes when an exception leaves smtp.login or smtp.send_message:
\* nothing catches it, the run ends.
OnSendFailure == "failed"

\* Line 195.
FetchWorksheet ==
    /\ pc = "init"
    /\ \/ pc' = "extract" /\ trace' = Append(trace, "fetch_worksheet")
       \/ pc' = "failed" /\ trace' = trace
    /\ UNCHANGED <<header, sheet, today, records, df, msg, sent, sheet0, insertDays,
                   args, result>>

\* Line 196: get_all_records, then the rest of extract_sheet_data.
ExtractSheetData ==
    /\ pc = "extract"
    /\ \/ /\ records' = sheet
          /\ df' \in extract_sheet_data(sheet, Limit)
          /\ pc' = "compose"
          /\ trace' = trace \o <<"get_all_records", "extract">>
       \/ pc' = "failed" /\ UNCHANGED <<records, df, trace>>
    /\ UNCHANGED <<header, sheet, today, msg, sent, sheet0, insertDays, args, result>>

\* Lines 197-217.
ComposeMessage ==
    /\ pc = "compose"
    /\ LET c == compose(df)
       IN  /\ msg' = c.msg
           /\ pc' = IF c.ok THEN "send" ELSE "failed"
           /\ trace' = IF c.ok THEN Append(trace, "compose") ELSE trace
    /\ UNCHANGED <<header, sheet, today, records, df, sent, sheet0, insertDays,
                   args, result>>

\* Lines 219-221.
SendMail ==
    /\ pc = "send"
    /\ \/ sent' = <<msg>> /\ pc' = "insert" /\ trace' = Append(trace, "send_message")
       \/ pc' = OnSendFailure /\ UNCHANGED <<sent, trace>>
    /\ UNCHANGED <<header, sheet, today, records, df, msg, sheet0, insertDays,
                   args, result>>

\* Line 223.
InsertDateEntry ==
    /\ pc = "insert"
    /\ \/ /\ sheet' = insert_date_entry(sheet, today)
          /\ insertDays' = Append(insertDays, today)
          /\ pc' = "done"
          /\ trace' = Append(trace, "insert_row")
       \/ pc' = "failed" /\ UNCHANGED <<sheet, insertDays, trace>>
    /\ UNCHANGED <<header, today, records, df, msg, sent, sheet0, args, result>>

\* The process ends and the external trigger starts the next run.
Invoke ==
    /\ pc \in {"done", "failed"}
    /\ Len(insertDays) < MaxRuns
    /\ pc' = "init"
    /\ trace' = <<>>
    /\ records' = <<>>
    /\ df' = NoData
    /\ msg' = BlankMessage
    /\ sent' = <<>>
    /\ UNCHANGED <<header, sheet, today, sheet0, insertDays, args, result>>

\* Between two runs a day passes.
NextDay ==
    /\ pc = "init"
    /\ today < LastDay
    /\ today' = today + 1
    /\ UNCHANGED <<header, sheet, runVars, sheet0, insertDays, args, result>>

\* Between two runs the user types the weight of the day into its empty cell.
UserEntersWeight ==
    /\ pc = "init"
    /\ \E i \in DOMAIN sheet, w \in Weights :
          /\ sheet[i].Date = Strftime(today)
          /\ sheet[i].Weight = EmptyCell
          /\ sheet' = [sheet EXCEPT ![i].Weight = <<w>>]
    /\ UNCHANGED <<header, today, runVars, sheet0, insertDays, args, result>>

Next ==
    \/ FetchWorksheet
    \/ ExtractSheetData
    \/ ComposeMessage
    \/ SendMail
    \/ InsertDateEntry
    \/ Invoke
    \/ NextDay
    \/ UserEntersWeight

Spec == Init /\ [][Next]_vars

(***************************************************************************)
(* Properties of the runs of main.                                         *)
(***************************************************************************)
IsPrefix(s, t) == Len(s) <= Len(t) /\ SubSeq(t, 1, Len(s)) = s

InTrace(step) == \E i \in DOMAIN trace : trace[i] = step

\* C1: the steps of a run happen in the order fetch, read, extract, compose,
\* send, insert, each at most once; a run that is done has made them all; a
\* row is inserted only after the mail was sent; a run that failed (at the
\* read or at the mail send among others) has inserted no row, and every
\* row of the sheet beyond the first sheet comes from one completed insert.
RunInOrder ==
    /\ IsPrefix(trace, RunOrder)
    /\ (pc = "done" <=> trace = RunOrder)
    /\ (InTrace("insert_row") => sent # <<>> /\ InTrace("get_all_records"))
    /\ (pc = "failed" => ~InTrace("insert_row"))
    /\ Len(sheet) = Len(sheet0) + Len(insertDays)

\* A run whose mail send failed after a successful read and compose.
SendFailedWitness ==
    /\ pc = "failed"
    /\ trace = SubSeq(RunOrder, 1, 4)
    /\ Len(insertDays) = 1

\* C2: extract_sheet_data returns None exactly when the records are empty
\* (and never a frame without rows); the message sent for no data has the
\* generic body and no attachment, every other message sent has the one PNG
\* attachment "Progress" and as body the weekly change, a number, or the
\* fallback text.
MessageFollowsExtraction ==
    /\ InTrace("extract") => /\ (df.none <=> records = <<>>)
                             /\ (~df.none => df.rows # <<>>)
    /\ sent # <<>> =>
          IF records = <<>>
          THEN sent[1].body.kind = "generic" /\ sent[1].attachments = <<>>
          ELSE /\ sent[1].attachments = <<Progress>>
               /\ \/ sent[1].body.kind = "insufficient"
                  \/ sent[1].body.kind = "change" /\ ~sent[1].body.nan

\* C4: no two rows of the frame extract_sheet_data returns have the same date.
ExtractedDatesUnique ==
    (InTrace("extract") /\ ~df.none) =>
        \A i, j \in DOMAIN df.rows : i # j => df.rows[i].Date # df.rows[j].Date

\* C8: the message holds the fallback text exactly when the weekly resample
\* has fewer than 2 buckets, and otherwise a number, the difference of the
\* means of the last two weekly buckets (rounded to 2 decimal places).
WeeklyChangeIsNumber ==
    (InTrace("compose") /\ ~df.none) =>
        /\ (msg.body.kind = "insufficient" <=> NBuckets(df.rows) < 2)
        /\ NBuckets(df.rows) >= 2 =>
              /\ msg.body.kind = "change"
              /\ ~msg.body.nan
              /\ msg.body.value = Round2Diff(BucketMean(df.rows, LastWeek(df.rows)),
                                             BucketMean(df.rows, LastWeek(df.rows) - 1))

OnSuccessiveDays(days) == \A i \in 1..(Len(days) - 1) : days[i + 1] = days[i] + 1

NewestFirst(rows) ==
    \A i, j \in DOMAIN rows : i < j => DayFirst(rows[i].Date) >= DayFirst(rows[j].Date)

NextDayRow == [Date |-> Strftime(today + 1), Weight |-> EmptyCell]

\* C10 as claimed: a completed run has put the row of the next day on top of
\* the rows it read and left the header alone, and after runs on successive
\* days the rows of the sheet are ordered newest date first.
InsertKeepsSheetNewestFirst ==
    pc = "done" =>
        /\ header = <<"Date", "Weight">>
        /\ sheet = <<NextDayRow>> \o records
        /\ (OnSuccessiveDays(insertDays) => NewestFirst(sheet))

\* C10 as amended: a completed run has put the row of the next day on top of
\* the rows it read and left the header alone; the rows the runs inserted are
\* on top, the latest insert first, above the dates of the first sheet in
\* their first order; after runs on successive days the inserted rows are
\* ordered newest date first.
InsertedRowsNewestFirst ==
    pc = "done" =>
        /\ header = <<"Date", "Weight">>
        /\ sheet = <<NextDayRow>> \o records
        /\ Len(sheet) = Len(insertDays) + Len(sheet0)
        /\ \A i \in DOMAIN insertDays :
              sheet[i] = [Date |-> Strftime(insertDays[Len(insertDays) - i + 1] + 1),
                          Weight |-> sheet[i].Weight]
        /\ \A i \in DOMAIN sheet0 : sheet[Len(insertDays) + i].Date = sheet0[i].Date
        /\ (OnSuccessiveDays(insertDays) => NewestFirst(SubSeq(sheet, 1, Len(insertDays))))

\* Two runs on successive days have inserted their rows above a first sheet
\* of two rows.
SuccessiveInsertsWitness ==
    /\ pc = "done"
    /\ Len(insertDays) = 2
    /\ OnSuccessiveDays(insertDays)
    /\ Len(sheet0) = 2

(***************************************************************************)
(* extract_sheet_data on its own: one call on any records and limit.       *)
(***************************************************************************)
\* What no run of main changes while one function is called on its own.
Idle ==
    /\ header = <<"Date", "Weight">>
    /\ sheet = <<>>
    /\ sheet0 = <<>>
    /\ trace = <<>>
    /\ records = <<>>
    /\ df = NoData
    /\ msg = BlankMessage
    /\ sent = <<>>
    /\ insertDays = <<>>

RawRows == [Date : {Strftime(o) : o \in InitDates \cup {InitDay + 1}}, Weight : {EmptyCell, <<80>>}]

RawRecords == UNION {[1..n -> RawRows] : n \in 0..MaxRecords}

InitExtract ==
    /\ Idle
    /\ today = InitDay
    /\ pc = "call"
    /\ args \in [records : RawRecords, limit : 0..MaxLimit]
    /\ result = NoData

CallExtract ==
    /\ pc = "call"
    /\ result' \in extract_sheet_data(args.records, args.limit)
    /\ pc' = "returned"
    /\ UNCHANGED <<header, sheet, today, trace, records, df, msg, sent, sheet0, insertDays, args>>

SpecExtract == InitExtract /\ [][CallExtract]_vars

\* C3: for non-empty records and any limit, extract_sheet_data returns
\* exactly min(row_count, limit) rows, in ascending date order, and they are
\* the rows of the most recent dates: the rows left out are no more recent
\* than any row returned.
ExtractKeepsMostRecent ==
    (pc = "returned" /\ args.records # <<>>) =>
        LET all == Frame(args.records)
            out == result.rows
        IN  /\ ~result.none
            /\ Len(out) = Min(Len(args.records), args.limit)
            /\ \A i \in 1..(Len(out) - 1) : out[i].Date <= out[i + 1].Date
            /\ \E keep \in SUBSET DOMAIN all :
                  /\ Cardinality(keep) = Len(out)
                  /\ \A i \in DOMAIN out : \E k \in keep : all[k] = out[i]
                  /\ \A k \in keep : \E i \in DOMAIN out : all[k] = out[i]
                  /\ \A k \in keep, d \in DOMAIN all \ keep : all[d].Date <= all[k].Date

(***************************************************************************)
(* date_following on its own: one call on any date and delta.              *)
(***************************************************************************)
DateArgs == [kind : {"None", "datetime", "date", "str", "int"},
             ord : InitDates \cup {Ord(31, 1)}]

InitDate ==
    /\ Idle
    /\ today \in InitDay..LastDay
    /\ pc = "call"
    /\ args \in [date : DateArgs, delta : 0..MaxDelta]
    /\ result = [raised |-> "", value |-> <<>>, printed |-> FALSE]

CallDateFollowing ==
    /\ pc = "call"
    /\ result' = date_following(args.date, args.delta, today)
    /\ pc' = "returned"
    /\ UNCHANGED <<header, sheet, today, trace, records, df, msg, sent, sheet0, insertDays, args>>

SpecDate == InitDate /\ [][CallDateFollowing]_vars

\* C9: a call of date_following with a value that is not a datetime, whose
\* coercion fails, prints the error and returns a formatted date string; no
\* exception leaves the call.
DateFollowingNeverRaises ==
    (pc = "returned" /\ args.date.kind \notin {"None", "datetime"}) =>
        /\ result.printed
        /\ result.raised = ""
        /\ result.value # <<>>

(***************************************************************************)
(* get_progression.  The arguments are a record a: start_value, increment, *)
(* direction, pct, index = [given, dates] (given FALSE is None), and       *)
(* n_days and start_date, each <<>> for None or <<v>>.  The numbers are    *)
(* integers.  The outcome is [raised, progression, index]: the frame       *)
(* returned, or the exception that left the call.                          *)
(***************************************************************************)
Raise(e) == [raised |-> e, progression |-> <<>>, index |-> <<>>]

\* pd.date_range(start_date, periods=n_days, freq="D").
date_range(start_date, periods) == [i \in 1..periods |-> start_date + i - 1]

\* n_days and start_date, line 132: both given, and n_days not 0.
DaysAndStart(a) == a.n_days # <<>> /\ a.n_days[1] # 0 /\ a.start_date # <<>>

\* A check of the direction that lets every string pass.
ValidDirectionAny(direction) == TRUE

\* Line 139.
ValidDirection(direction) == direction \in {"positive", "negative"}

\* An increment that is added or multiplied whatever the direction.
increment_func_unsigned(a, prev) ==
    IF a.pct THEN (1 + a.increment) * prev ELSE a.increment + prev

\* Lines 144-153: partial(mul, increment) or partial(add, increment).
increment_func(a, prev) ==
    IF a.pct
    THEN (IF a.direction = "positive" THEN 1 + a.increment ELSE 1 - a.increment) * prev
    ELSE (IF a.direction = "negative" THEN a.increment * (-1) ELSE a.increment) + prev

\* Lines 156-159: the list after n_incerements rounds of the loop.
RECURSIVE Progression(_, _)
Progression(a, n_incerements) ==
    IF n_incerements <= 0 THEN <<a.start_value>>
    ELSE LET progression == Progression(a, n_incerements - 1)
         IN  Append(progression, increment_func(a, progression[Len(progression)]))

\* A frame built without comparing the lengths.
DataFrameUnchecked(progression, index) ==
    [raised |-> "", progression |-> progression, index |-> index]

\* pd.DataFrame({...: progression}, index=index), line 161: ValueError when
\* the lengths differ.
DataFrame(progression, index) ==
    IF Len(progression) = Len(index)
    THEN [raised |-> "", progression |-> progression, index |-> index]
    ELSE Raise("ValueError")

get_progression(a) ==
    IF ~a.index.given /\ ~DaysAndStart(a) THEN Raise("NotImplementedError")
    ELSE IF ~ValidDirection(a.direction) THEN Raise("NotImplementedError")
    ELSE LET index == IF a.index.given THEN a.index.dates
                      ELSE date_range(a.start_date[1], a.n_days[1])
         IN  DataFrame(Progression(a, Len(index) - 1), index)

NoIndex == [given |-> FALSE, dates |-> <<>>]

Indexes == {NoIndex} \cup {[given |-> TRUE, dates |-> date_range(InitDay, n)] : n \in 0..MaxPeriods}

ProgArgs ==
    [start_value : {7, 100}, increment : {1, 2},
     direction : {"positive", "negative", "sideways"}, pct : BOOLEAN,
     index : Indexes,
     n_days : {<<>>} \cup {<<n>> : n \in 0..MaxPeriods},
     start_date : {<<>>, <<InitDay>>}]

InitProg ==
    /\ Idle
    /\ today = InitDay
    /\ pc = "call"
    /\ args \in ProgArgs
    /\ result = Raise("")

CallGetProgression ==
    /\ pc = "call"
    /\ result' = get_progression(args)
    /\ pc' = "returned"
    /\ UNCHANGED <<header, sheet, today, trace, records, df, msg, sent, sheet0, insertDays, args>>

SpecProg == InitProg /\ [][CallGetProgression]_vars

Returned == pc = "returned" /\ result.raised = ""

BadCallRaises ==
    pc = "returned" =>
        /\ args.direction \notin {"positive", "negative"} =>
              result = Raise("NotImplementedError")
        /\ (~args.index.given /\ ~(args.n_days # <<>> /\ args.start_date # <<>>)) =>
              result = Raise("NotImplementedError")

\* A call with a date range and the direction "sideways" has raised.
SidewaysWitness ==
    /\ pc = "returned"
    /\ args.direction = "sideways"
    /\ args.index.given
    /\ Len(args.index.dates) = 2
    /\ result.raised = "NotImplementedError"

BothSupplied(a) == a.index.given /\ a.n_days # <<>> /\ a.start_date # <<>>

OneSupplied(a) == a.index.given # (a.n_days # <<>> /\ a.start_date # <<>>)

=============================================================================
